---------------------------- MODULE Spec2Model ----------------------------
(***************************************************************************)
(* GoChat: the chat server of src/Client/ChatClient.go (lines 350-853) as  *)
(* a state machine: the SQLite tables Users, Rooms and Messages, the two   *)
(* process-wide maps activeRooms and wsconns, the websocket connections    *)
(* with their listener goroutines, and the HTTP handlers; and the chat     *)
(* client of the same file (lines 1-348): its main task, recieveHandler    *)
(* and updateMessages.                                                     *)
(*                                                                         *)
(* Spec          the room handlers, each run to completion.                *)
(* SpecBroker    the sequential server: rooms, connections, posts.         *)
(* SpecJoinRace  join/leave handlers run as goroutines, step by step.      *)
(* SpecPostRace  postMessage calls run as goroutines, step by step.        *)
(* SpecLog       the message log alone under concurrent postMessage calls. *)
(* SpecSockRace  socketHandler and the listener it starts, step by step.   *)
(* SpecSupersede the same for several connections of the same users.       *)
(* SpecClient    one client against the sequential server.                 *)
(* SpecClientLive  the same, with the client's tasks scheduled fairly.     *)
(* SpecPoller    updateMessages on a list of joined rooms.                 *)
(***************************************************************************)
EXTENDS Naturals, Integers, Sequences, FiniteSets, TLC

\* ------------------------------------------------------------------ bounds
MaxMembers == 3     \* longest member slice a room is driven to (Spec)
MaxFanout  == 2     \* longest member slice a room is driven to (the other specs)
MaxPosts   == 1     \* postMessage calls in one run
MaxConns   == 1     \* websocket connections accepted in one run
MaxClock   == 1     \* highest value of the server clock (seconds)
MaxOps     == 3     \* join/leave requests in one run of SpecJoinRace
NTasks     == 2     \* handler goroutines that may be in flight at once
MaxCmds    == 3     \* lines the user types on the client's console
MaxPasses  == 2     \* passes of the client's poller over its rooms
MaxTransports == 2  \* websocket connections accepted in one run of SpecSupersede

Names     == {"alice", "bob"}      \* user names a client may send
RoomNames == {"TEST", "general"}   \* room names a client may send
BrokerRooms == {"TEST"}           \* the room the broker specs drive
Texts     == {"hi"}                \* message texts
Tasks     == 1..NTasks
ConnIDs   == 1..MaxConns
Transports == 1..MaxTransports
UserIDs   == 1..Cardinality(Names)
RoomIDs   == 1..Cardinality(RoomNames)
Gens      == 1..(NTasks + 2)       \* backing arrays one room may hold live

\* ------------------------------------------------------------ Go's values
NULL    == 0      \* SQL NULL / an absent map entry / a nil pointer
Empty   == ""     \* the zero value of a Go string
NoRoom  == -1     \* what getRoomID returns with its error
HourAgo == 3600   \* the replay window of socketHandler, in seconds
NilSlice == [arr |-> 0, len |-> 0]

VARIABLES
    users,        \* table Users: users[id] is the name of UserID id
    rooms,        \* table Rooms: rooms[id] is the name of RoomID id
    messages,     \* table Messages: rows in insertion order
    activeRooms,  \* map[int][]string: RoomID -> slice header (array, len)
    arrays,       \* the backing arrays of those slices, per room
    wsconns,      \* map[int]*websocket.Conn: UserID -> connection or NULL
    conns,        \* per connection: its state and the frames written to it
    clock,        \* time.Now().Unix()
    running,      \* FALSE once log.Fatal has ended the process
    posts,        \* history: one record per postMessage call
    jt,           \* join/leave handler goroutines
    hist,         \* history: the join/leave requests in arrival order
    pt,           \* goroutines inside postMessage
    cl            \* the chat client: its tasks, its globals, its console

dbVars   == <<users, rooms, messages>>
memVars  == <<activeRooms, arrays>>
connVars == <<wsconns, conns>>
serverVars == <<users, rooms, messages, activeRooms, arrays, wsconns, conns,
                clock, running, posts, jt, hist, pt>>
vars == <<users, rooms, messages, activeRooms, arrays, wsconns, conns,
          clock, running, posts, jt, hist, pt, cl>>

\* -------------------------------------------------------------- sequences
RECURSIVE IndexOf(_, _, _)
IndexOf(s, x, i) ==
    IF i > Len(s) THEN 0
    ELSE IF s[i] = x THEN i
    ELSE IndexOf(s, x, i + 1)

RECURSIVE Count(_, _, _)
Count(s, x, i) ==
    IF i > Len(s) THEN 0
    ELSE (IF s[i] = x THEN 1 ELSE 0) + Count(s, x, i + 1)

Occurs(s, x) == Count(s, x, 1)

Zeros(n) == [k \in 1..n |-> Empty]

\* ------------------------------------------------------------------ tables
\* SELECT * FROM Users WHERE Name = ?  (row.Scan() != sql.ErrNoRows)
userExists(name) == IndexOf(users, name, 1) # 0

\* SELECT RoomID FROM Rooms WHERE RoomName = ?  (row.Scan() != sql.ErrNoRows)
roomExists(name) == IndexOf(rooms, name, 1) # 0

\* SELECT RoomID FROM Rooms WHERE RoomName = ?  -> (-1, err) without a row
getRoomID(tbl, name) ==
    IF IndexOf(tbl, name, 1) = 0 THEN NoRoom ELSE IndexOf(tbl, name, 1)

\* INSERT OR IGNORE INTO Rooms (RoomName) VALUES (?)
createRoom(tbl, name) ==
    IF IndexOf(tbl, name, 1) # 0 THEN tbl ELSE Append(tbl, name)

\* len(activeRooms[roomID]) of the room of that name (0 for an unknown room)
JoinedLen(room) ==
    IF roomExists(room) THEN activeRooms[getRoomID(rooms, room)].len ELSE 0

\* the tables after joinRoomHandler's "if !roomExists(room) { createRoom }"
RoomsAfterJoin(name) == IF roomExists(name) THEN rooms ELSE createRoom(rooms, name)

\* (SELECT UserID FROM Users WHERE Name = ?): NULL without a row
UserIDOf(name) == IndexOf(users, name, 1)

\* ------------------------------------------------------------------ slices
\* The string slice a header denotes: the first len cells of its array.
SliceOf(arrs, h) ==
    IF h.arr = 0 THEN <<>> ELSE SubSeq(arrs[h.arr], 1, h.len)

Cap(arrs, h) == IF h.arr = 0 THEN 0 ELSE Len(arrs[h.arr])

\* the member list the map holds for roomID (nil for an absent key)
Members(rid) ==
    IF rid \in RoomIDs THEN SliceOf(arrays[rid], activeRooms[rid]) ELSE <<>>

\* Go's growth of a small slice on append: 0 -> 1, then doubling.
GrowCap(c) == IF c = 0 THEN 1 ELSE 2 * c

\* a free backing array of the room: the lowest one that holds nothing
FreeGen(arrs) == CHOOSE g \in Gens :
    /\ arrs[g] = <<>>
    /\ \A k \in Gens : arrs[k] = <<>> => g <= k

\* append(s, user): in place when the capacity allows, else into a grown
\* copy. Returns the room's arrays and the new header.
AppendSlice(arrs, h, user) ==
    IF h.len < Cap(arrs, h)
    THEN [arrs |-> [arrs EXCEPT ![h.arr][h.len + 1] = user],
          hdr  |-> [arr |-> h.arr, len |-> h.len + 1]]
    ELSE LET g == FreeGen(arrs)
             grown == SliceOf(arrs, h) \o <<user>>
                        \o Zeros(GrowCap(Cap(arrs, h)) - h.len - 1)
         IN  [arrs |-> [arrs EXCEPT ![g] = grown],
              hdr  |-> [arr |-> g, len |-> h.len + 1]]

\* remove(s, i): s[i] = s[len(s)-1]; s[len(s)-1] = ""; the shorter slice it
\* returns is dropped by its only caller, so what remains is the write into
\* the backing array (i counts from 1 here).
remove(arrs, h, i) ==
    LET s == arrs[h.arr]
    IN  [arrs EXCEPT ![h.arr] = [s EXCEPT ![i] = s[h.len], ![h.len] = Empty]]

\* One iteration of leaveRoomHandler's range loop: the element is read
\* through the header the range captured (rh), remove works on the header
\* the map holds now (mh).
LeaveIter(arrs, rh, mh, user, i) ==
    IF arrs[rh.arr][i] = user /\ mh.arr # 0 /\ i <= mh.len
    THEN remove(arrs, mh, i)
    ELSE arrs

RECURSIVE LeaveLoop(_, _, _, _)
LeaveLoop(arrs, h, user, i) ==
    IF i > h.len THEN arrs
    ELSE LeaveLoop(LeaveIter(arrs, h, h, user, i), h, user, i + 1)

\* arrays no header refers to any more are garbage
Collect(arrs, live) == [g \in Gens |-> IF g \in live THEN arrs[g] ELSE <<>>]

LiveGens(rid, hdrs, tasks) ==
    {hdrs[rid].arr} \cup
    {tasks[t].h.arr : t \in {u \in Tasks : tasks[u].pc # "idle" /\ tasks[u].rid = rid}}

\* a connection nobody has dialled yet. st: the socket (none, open, closed);
\* h: socketHandler's position (none, upgraded, returned) and uid the user id
\* it parsed; l: websocketListener's position (none, reading, failed,
\* exited); inbox: the frames written to the peer; reread (history): the
\* listener has called ReadJSON again after a ReadJSON that failed; sup
\* (history, kept by the step-by-step handler and listener): "yes" once a
\* later connection has overwritten this connection's entry of wsconns,
\* "failed" once a ReadJSON has failed on it after that.
NoConn == [st |-> "none", h |-> "none", l |-> "none", uid |-> NULL, inbox |-> <<>>,
           reread |-> FALSE, sup |-> "no"]

IdlePost == [pc |-> "idle", pid |-> 0]

IdleTask == [pc |-> "idle", op |-> "none", user |-> Empty, rid |-> NoRoom,
             h |-> NilSlice, i |-> 0, id |-> 0]

\* ------------------------------------------------------------ the client
\* A console line as sanitizeInput sees it: whether it starts with '/', its
\* first word (without the slash) and the text after the first space.
ConsoleLine(slash, head, rest) == [slash |-> slash, head |-> head, rest |-> rest]

QuitLine == ConsoleLine(TRUE, "quit", Empty)      \* "/quit"
NoLine   == ConsoleLine(FALSE, Empty, Empty)      \* scanner.Text() before a Scan

\* the lines a user may type
Lines ==
    {ConsoleLine(TRUE, "join", r) : r \in RoomNames}
        \cup {ConsoleLine(TRUE, "leave", r) : r \in RoomNames}
        \cup {QuitLine,                               \* "/quit"
              ConsoleLine(TRUE, "quit", "now"),       \* "/quit now"
              ConsoleLine(FALSE, "hi", Empty),        \* "hi"
              ConsoleLine(TRUE, "TEST", "hi")}        \* "/TEST hi"

\* sanitizeInput: (command, message) of a line
sanitizeInput(userIn) ==
    IF userIn.slash
    THEN [cmd |-> userIn.head, msg |-> userIn.rest]
    ELSE [cmd |-> Empty, msg |-> userIn.head]

\* the client before main runs. pc: the main task (start, dial, scan, loop,
\* poll, quit, done); exit: how the process ended (none, return, quit, fatal,
\* panic); rh: the task of recieveHandler (none, reading); msg: whether its
\* msg holds a message (its pointers are set); rd: the frames it has read;
\* i: the index of a range loop; passes: the sleeps of updateMessages. typed,
\* served, engaged (the lines typed when updateMessages was entered), joined,
\* leaves (the Leave requests of quit), sent (the postMessage calls), ticks
\* (the requests of updateMessages) and reread are history.
NoClient ==
    [pc |-> "start", exit |-> "none",
     name |-> Empty, uid |-> NULL,
     wsconn |-> "nil", conn |-> NULL, isConnected |-> FALSE,
     stdin |-> <<>>, text |-> NoLine,
     activeRooms |-> <<>>, lastActiveRoom |-> Empty,
     rh |-> "none", msg |-> FALSE, rd |-> 0, i |-> 0, passes |-> 0,
     typed |-> 0, served |-> 0, engaged |-> 0, joined |-> {}, leaves |-> <<>>,
     sent |-> <<>>, ticks |-> <<>>, reread |-> FALSE]

\* --------------------------------------------------------------------- Init
Init ==
    /\ users = <<>>
    /\ rooms = <<>>
    /\ messages = <<>>
    /\ activeRooms = [r \in RoomIDs |-> NilSlice]
    /\ arrays = [r \in RoomIDs |-> [g \in Gens |-> <<>>]]
    /\ wsconns = [u \in UserIDs |-> NULL]
    /\ conns = [c \in ConnIDs |-> NoConn]
    /\ clock = 0
    /\ running = TRUE
    /\ posts = <<>>
    /\ jt = [t \in Tasks |-> IdleTask]
    /\ hist = <<>>
    /\ pt = [t \in Tasks |-> IdlePost]
    /\ cl = NoClient

\* ------------------------------------------------------- newUserHandler
\* POST /chat/user/new: 400 when the name exists, else INSERT INTO Users.
newUserHandler(name) ==
    /\ running
    /\ ~userExists(name)
    /\ users' = Append(users, name)
    /\ UNCHANGED <<rooms, messages, memVars, connVars, clock, running, posts, jt, hist, pt>>

\* POST /chat/room/new: 409 when the room exists, else createRoom.
newRoomHandler(name) ==
    /\ running
    /\ ~roomExists(name)
    /\ rooms' = createRoom(rooms, name)
    /\ UNCHANGED <<users, messages, memVars, connVars, clock, running, posts, jt, hist, pt>>

\* ------------------------------------------------------- joinRoomHandler
\* POST /chat/room/join, run to completion.
joinRoomHandler(user, room) ==
    /\ running
    /\ userExists(user)
    /\ LET tbl == RoomsAfterJoin(room)
           rid == getRoomID(tbl, room)
           res == AppendSlice(arrays[rid], activeRooms[rid], user)
       IN  /\ rooms' = tbl
           /\ activeRooms' = [activeRooms EXCEPT ![rid] = res.hdr]
           /\ arrays' = [arrays EXCEPT ![rid] =
                            Collect(res.arrs, LiveGens(rid, activeRooms', jt))]
    /\ UNCHANGED <<users, messages, connVars, clock, running, posts, jt, hist, pt>>

\* ------------------------------------------------------ leaveRoomHandler
\* DELETE /chat/room/leave, run to completion. An unknown room answers 400
\* and goes on with roomID -1, whose slice is nil.
leaveRoomHandler(user, room) ==
    /\ running
    /\ userExists(user)
    /\ LET rid == getRoomID(rooms, room)
       IN  IF rid = NoRoom \/ activeRooms[rid].arr = 0
           THEN UNCHANGED arrays
           ELSE arrays' = [arrays EXCEPT ![rid] =
                              LeaveLoop(@, activeRooms[rid], user, 1)]
    /\ UNCHANGED <<dbVars, activeRooms, connVars, clock, running, posts, jt, hist, pt>>

\* ------------------------------------------- room handlers as goroutines
\* the requests of hist that have returned
Finished == {k \in 1..Len(hist) : \A t \in Tasks : jt[t].pc = "idle" \/ jt[t].id # k}

Arrival(op, user, rid) ==
    [op |-> op, user |-> user, rid |-> rid, before |-> Finished]

\* joinRoomHandler up to the read of activeRooms[roomID] in line 756: the
\* checks, createRoom, getRoomID, and the slice header the append will use.
joinBegin(t, user, room) ==
    /\ running
    /\ jt[t].pc = "idle"
    /\ Len(hist) < MaxOps
    /\ userExists(user)
    /\ LET tbl == RoomsAfterJoin(room)
           rid == getRoomID(tbl, room)
       IN  /\ rooms' = tbl
           /\ jt' = [jt EXCEPT ![t] = [pc |-> "join", op |-> "join", user |-> user,
                                       rid |-> rid, h |-> activeRooms[rid], i |-> 0,
                                       id |-> Len(hist) + 1]]
           /\ hist' = Append(hist, Arrival("join", user, rid))
    /\ UNCHANGED <<users, messages, memVars, connVars, clock, running, posts, pt>>

\* joinRoomHandler, the rest of line 756: append to the slice read before
\* and store the result in the map.
joinEnd(t) ==
    /\ running
    /\ jt[t].pc = "join"
    /\ LET rid == jt[t].rid
           res == AppendSlice(arrays[rid], jt[t].h, jt[t].user)
       IN  /\ jt' = [jt EXCEPT ![t] = IdleTask]
           /\ activeRooms' = [activeRooms EXCEPT ![rid] = res.hdr]
           /\ arrays' = [arrays EXCEPT ![rid] =
                            Collect(res.arrs, LiveGens(rid, activeRooms', jt'))]
    /\ UNCHANGED <<dbVars, connVars, clock, running, posts, hist, pt>>

\* leaveRoomHandler up to the start of its range loop: the checks, getRoomID
\* and the slice header the range iterates. A nil or empty slice ends it.
leaveBegin(t, user, room) ==
    /\ running
    /\ jt[t].pc = "idle"
    /\ Len(hist) < MaxOps
    /\ userExists(user)
    /\ LET rid == getRoomID(rooms, room)
           h == IF rid = NoRoom THEN NilSlice ELSE activeRooms[rid]
       IN  /\ jt' = IF h.len = 0 THEN jt
                    ELSE [jt EXCEPT ![t] = [pc |-> "leave", op |-> "leave",
                                            user |-> user, rid |-> rid, h |-> h,
                                            i |-> 1, id |-> Len(hist) + 1]]
           /\ hist' = Append(hist, Arrival("leave", user, rid))
    /\ UNCHANGED <<dbVars, memVars, connVars, clock, running, posts, pt>>

\* leaveRoomHandler, one iteration of the range loop; the last one returns.
leaveStep(t) ==
    /\ running
    /\ jt[t].pc = "leave"
    /\ LET rid == jt[t].rid
           arrs == LeaveIter(arrays[rid], jt[t].h, activeRooms[rid], jt[t].user, jt[t].i)
       IN  /\ jt' = [jt EXCEPT ![t] = IF jt[t].i = jt[t].h.len THEN IdleTask
                                      ELSE [@ EXCEPT !.i = @ + 1]]
           /\ arrays' = [arrays EXCEPT ![rid] =
                            Collect(arrs, LiveGens(rid, activeRooms, jt'))]
    /\ UNCHANGED <<dbVars, activeRooms, connVars, clock, running, posts, hist, pt>>

\* ---------------------------------------------------------- message log
\* A posted Message as it travels: pid names the postMessage call (history),
\* epoch is the field the client sent (nil for this client).
NoEpoch == -1
Frame(pid, sender, room, text, epoch) ==
    [pid |-> pid, sender |-> sender, room |-> room, text |-> text, epoch |-> epoch]

\* SELECT Users.Name, Epoch, MessageText, Rooms.RoomName FROM Messages
\*   INNER JOIN Users ... INNER JOIN Rooms ...: one row, or nothing when the
\* row's UserID or RoomID is NULL.
Joined(row) == row.uid # NULL /\ row.rid # NULL

RowMessage(row) ==
    [sender |-> users[row.uid], epoch |-> row.epoch,
     text |-> row.text, room |-> rooms[row.rid]]

\* the rows of a table that the join keeps for a room name, in rowid order
RECURSIVE RoomRows(_, _, _)
RoomRows(tbl, room, i) ==
    IF i > Len(tbl) THEN <<>>
    ELSE (IF Joined(tbl[i]) /\ rooms[tbl[i].rid] = room THEN <<tbl[i]>> ELSE <<>>)
         \o RoomRows(tbl, room, i + 1)

\* ... AND Epoch >= ?
RECURSIVE SelectRows(_, _, _, _)
SelectRows(tbl, room, since, i) ==
    IF i > Len(tbl) THEN <<>>
    ELSE (IF Joined(tbl[i]) /\ rooms[tbl[i].rid] = room /\ tbl[i].epoch >= since
          THEN <<tbl[i]>> ELSE <<>>) \o SelectRows(tbl, room, since, i + 1)

RECURSIVE MapRows(_, _)
MapRows(rows, i) ==
    IF i > Len(rows) THEN <<>> ELSE <<RowMessage(rows[i])>> \o MapRows(rows, i + 1)

\* the range query with "Epoch > ?" in place of "Epoch >= ?"
getMessagesAfterStrict(room, epoch) ==
    MapRows(SelectRows(messages, room, epoch + 1, 1), 1)

\* the range query without its "AND Epoch >= ?"
getMessagesAfterAll(room, epoch) == MapRows(RoomRows(messages, room, 1), 1)

\* getMessagesAfter: ... WHERE Rooms.RoomName = ? AND Epoch >= ?
getMessagesAfter(room, epoch) == MapRows(SelectRows(messages, room, epoch, 1), 1)

\* getMessages: ... WHERE Rooms.RoomName = ?
getMessages(room) == MapRows(RoomRows(messages, room, 1), 1)

\* c.WriteJSON(msg) on every connection of a list, in order
RECURSIVE WriteAll(_, _, _)
WriteAll(cs, c, frames) ==
    IF frames = <<>> THEN cs
    ELSE WriteAll([cs EXCEPT ![c].inbox = Append(@, Head(frames))], c, Tail(frames))

\* sendHandler: c.WriteJSON(msg); an error (a closed connection) is logged.
sendHandler(cs, c, frame) ==
    IF cs[c].st = "open" THEN WriteAll(cs, c, <<frame>>) ELSE cs

\* the key postMessage looks up in wsconns on iteration i of
\* "for userID := range activeRooms[roomID]": the index of the range
FanoutKey(members, i) == i - 1

\* postMessage's loop over activeRooms[roomID], from iteration i (from 1)
RECURSIVE Fanout(_, _, _, _, _)
Fanout(cs, reg, members, frame, i) ==
    IF i > Len(members) THEN cs
    ELSE LET userID == FanoutKey(members, i)
             next == IF userID \in DOMAIN reg /\ reg[userID] # NULL
                     THEN sendHandler(cs, reg[userID], frame)
                     ELSE cs
         IN  Fanout(next, reg, members, frame, i + 1)

\* the connections after the fan-out of postMessage (lines 580-589)
AfterFanout(frame) ==
    LET rid == getRoomID(rooms, frame.room)
    IN  IF rid = NoRoom THEN conns
        ELSE Fanout(conns, wsconns, Members(rid), frame, 1)

\* the row of "INSERT INTO Messages (UserID, Epoch, MessageText, RoomID)
\*   VALUES ((SELECT UserID ...), ?, ?, (SELECT RoomID ...))"
NewRow(pid, sender, room, text, epoch) ==
    [pid |-> pid, uid |-> UserIDOf(sender), epoch |-> epoch, text |-> text,
     rid |-> IF roomExists(room) THEN getRoomID(rooms, room) ELSE NULL]

\* what the caller of postMessage gets: nil after the INSERT (LastInsertId
\* of the sqlite3 driver never fails); a failed db.Exec is log.Fatal, which
\* ends the process before any return.
PostResult(dbOk) == IF dbOk THEN "ok" ELSE "fatal"

\* postMessage(msg), run to completion: epoch, fan-out, INSERT.
postMessage(sender, room, text, dbOk) ==
    LET pid == Len(posts) + 1
        frame == Frame(pid, sender, room, text, NoEpoch)
    IN  /\ conns' = AfterFanout(frame)
        /\ messages' = IF dbOk
                       THEN Append(messages, NewRow(pid, sender, room, text, clock))
                       ELSE messages
        /\ running' = dbOk
        /\ posts' = Append(posts, [sender |-> sender, room |-> room, text |-> text,
                                   epoch |-> clock,
                                   result |-> PostResult(dbOk)])

\* POST /chat/postmsg with a well-formed body.
newMessageHandler(sender, room, text, dbOk) ==
    /\ running
    /\ Len(posts) < MaxPosts
    /\ postMessage(sender, room, text, dbOk)
    /\ UNCHANGED <<users, rooms, memVars, wsconns, clock, jt, hist, pt>>

\* postMessage up to the INSERT (lines 577-589): the epoch is read, the
\* message is fanned out.
postBegin(t, sender, room, text) ==
    /\ running
    /\ pt[t].pc = "idle"
    /\ LET pid == Len(posts) + 1
       IN  /\ conns' = AfterFanout(Frame(pid, sender, room, text, NoEpoch))
           /\ posts' = Append(posts, [sender |-> sender, room |-> room, text |-> text,
                                      epoch |-> clock, result |-> "pending"])
           /\ pt' = [pt EXCEPT ![t] = [pc |-> "insert", pid |-> pid]]
    /\ UNCHANGED <<dbVars, memVars, wsconns, clock, running, jt, hist>>

\* postMessage from the INSERT to its return (lines 590-599).
postEnd(t, dbOk) ==
    /\ running
    /\ pt[t].pc = "insert"
    /\ LET pid == pt[t].pid
           p == posts[pid]
       IN  /\ messages' = IF dbOk
                          THEN Append(messages,
                                      NewRow(pid, p.sender, p.room, p.text, p.epoch))
                          ELSE messages
           /\ posts' = [posts EXCEPT ![pid].result = PostResult(dbOk)]
    /\ running' = dbOk
    /\ pt' = [pt EXCEPT ![t].pc = "done"]
    /\ UNCHANGED <<users, rooms, memVars, connVars, clock, jt, hist>>

\* ----------------------------------------------------------- websockets
\* the rows socketHandler replays: room "TEST", the last hour
ReplayRows == SelectRows(messages, "TEST", clock - HourAgo, 1)

RECURSIVE ReplayFrames(_, _)
ReplayFrames(rows, i) ==
    IF i > Len(rows) THEN <<>>
    ELSE <<Frame(rows[i].pid, users[rows[i].uid], rooms[rows[i].rid],
                 rows[i].text, rows[i].epoch)>> \o ReplayFrames(rows, i + 1)

\* a registry that keeps the entry a user already has
RegisterIfAbsent(reg, userID, c) ==
    IF reg[userID] = NULL THEN [reg EXCEPT ![userID] = c] ELSE reg

\* the registry after "wsconns[userID] = c"
Register(reg, userID, c) == [reg EXCEPT ![userID] = c]

\* the registry after the listener's "for k, v := range wsconns
\*   { if v == conn { delete(wsconns, k) } }"
Unregister(reg, c) == [u \in DOMAIN reg |-> IF reg[u] = c THEN NULL ELSE reg[u]]

\* history of "wsconns[userID] = c": the connection old that the entry held
\* before is superseded by c
Supersede(cs, old, c) ==
    IF old \in DOMAIN cs /\ old # c THEN [cs EXCEPT ![old].sup = "yes"] ELSE cs

\* history of a failed ReadJSON: it failed on a superseded connection
ReadFailed(conn) == [conn EXCEPT !.sup = IF @ = "yes" THEN "failed" ELSE @]

\* the next connection the server accepts
Fresh(c) == conns[c].st = "none" /\ \A k \in DOMAIN conns : k < c => conns[k].st # "none"

\* socketHandler up to "go websocketListener(c)": the upgrade succeeded and
\* the listener runs; the user id is parsed, nothing is registered yet.
sockUpgrade(c, userID) ==
    /\ running
    /\ Fresh(c)
    /\ userID \in 1..Len(users)
    /\ conns' = [conns EXCEPT ![c] =
                    [@ EXCEPT !.st = "open", !.h = "upgraded", !.l = "reading",
                              !.uid = userID]]
    /\ UNCHANGED <<dbVars, memVars, wsconns, clock, running, posts, jt, hist, pt>>

\* socketHandler from "wsconns[userID] = c" to its return: register, then
\* write the replay (WriteJSON on a closed connection fails and is logged).
sockRegister(c) ==
    /\ running
    /\ conns[c].h = "upgraded"
    /\ wsconns' = Register(wsconns, conns[c].uid, c)
    /\ conns' = LET cs == Supersede([conns EXCEPT ![c].h = "returned", ![c].uid = NULL],
                                         wsconns[conns[c].uid], c)
                IN  IF conns[c].st = "open"
                    THEN WriteAll(cs, c, ReplayFrames(ReplayRows, 1))
                    ELSE cs
    /\ UNCHANGED <<dbVars, memVars, clock, running, posts, jt, hist, pt>>

\* GET /chat/sockets/connect?user-id=<id>, run to completion on a successful
\* upgrade: start the listener, register, replay.
socketHandler(c, userID) ==
    /\ running
    /\ Fresh(c)
    /\ userID \in 1..Len(users)
    /\ wsconns' = Register(wsconns, userID, c)
    /\ conns' = WriteAll([conns EXCEPT ![c] =
                             [@ EXCEPT !.st = "open", !.h = "returned", !.l = "reading"]],
                         c, ReplayFrames(ReplayRows, 1))
    /\ UNCHANGED <<dbVars, memVars, clock, running, posts, jt, hist, pt>>

\* websocketListener, first failing ReadJSON: conn.Close(), then delete the
\* connection from wsconns; the for loop goes on.
listenerReadError(c) ==
    /\ running
    /\ conns[c].l = "reading"
    /\ conns' = [conns EXCEPT ![c] =
                    ReadFailed([@ EXCEPT !.st = "closed", !.l = "failed"])]
    /\ wsconns' = Unregister(wsconns, c)
    /\ UNCHANGED <<dbVars, memVars, clock, running, posts, jt, hist, pt>>

\* websocketListener, a further iteration on the failed connection: ReadJSON
\* fails again, the same branch runs again.
listenerReadAgain(c) ==
    /\ running
    /\ conns[c].l = "failed"
    /\ conns' = [conns EXCEPT ![c] = ReadFailed([@ EXCEPT !.reread = TRUE])]
    /\ wsconns' = Unregister(wsconns, c)
    /\ UNCHANGED <<dbVars, memVars, clock, running, posts, jt, hist, pt>>

\* websocketListener leaves through its deferred recover(): the repeated
\* read of a failed connection panics in the websocket library.
listenerPanic(c) ==
    /\ running
    /\ conns[c].l = "failed"
    /\ conns' = [conns EXCEPT ![c].l = "exited", ![c].reread = TRUE]
    /\ UNCHANGED <<dbVars, memVars, wsconns, clock, running, posts, jt, hist, pt>>

\* websocketListener from its first failing ReadJSON until it has left.
listenerFails(c) ==
    /\ running
    /\ conns[c].l = "reading"
    /\ conns' = [conns EXCEPT ![c].st = "closed", ![c].l = "exited", ![c].reread = TRUE]
    /\ wsconns' = Unregister(wsconns, c)
    /\ UNCHANGED <<dbVars, memVars, clock, running, posts, jt, hist, pt>>

\* websocketListener: ReadJSON yields a message; postMessage(msg).
listenerMessage(c, sender, room, text, dbOk) ==
    /\ running
    /\ conns[c].l = "reading"
    /\ Len(posts) < MaxPosts
    /\ postMessage(sender, room, text, dbOk)
    /\ UNCHANGED <<users, rooms, memVars, wsconns, clock, jt, hist, pt>>

\* time passes
Tick ==
    /\ running
    /\ clock < MaxClock
    /\ clock' = clock + 1
    /\ UNCHANGED <<dbVars, memVars, connVars, running, posts, jt, hist, pt>>

\* ------------------------------------------------------- the client's main
Alive == cl.exit = "none"

\* main, lines 74-80: postName(name) posts the name to /chat/user/new and
\* stores the answer in userInfo (the name is new: UserID is the row's id).
clientPostName(name) ==
    /\ cl.pc = "start"
    /\ newUserHandler(name)
    /\ cl' = [cl EXCEPT !.pc = "dial", !.name = name, !.uid = Len(users) + 1]

\* main, lines 86-95: Dial; wsconn = conn (nil on an error), isConnected =
\* (err == nil); defer conn.Close(); go recieveHandler().
clientDial(c, net) ==
    /\ cl.pc = "dial"
    /\ \/ /\ net
          /\ socketHandler(c, cl.uid)
          /\ cl' = [cl EXCEPT !.pc = "scan", !.wsconn = "open", !.conn = c,
                              !.isConnected = TRUE, !.rh = "reading"]
       \/ /\ ~net
          /\ UNCHANGED serverVars
          /\ cl' = [cl EXCEPT !.pc = "scan", !.wsconn = "nil",
                              !.isConnected = FALSE, !.rh = "reading"]

\* the user enters a line on the console
userTypes(line) ==
    /\ Alive
    /\ cl.pc \notin {"start", "dial"}
    /\ cl.typed < MaxCmds
    /\ cl.stdin = <<>>
    /\ cl' = [cl EXCEPT !.stdin = <<line>>, !.typed = @ + 1]
    /\ UNCHANGED serverVars

\* scanner.Scan() (lines 97 and 127): the next line becomes scanner.Text()
clientScan ==
    /\ Alive
    /\ cl.pc = "scan"
    /\ cl.stdin # <<>>
    /\ cl' = [cl EXCEPT !.pc = "loop", !.text = Head(cl.stdin), !.stdin = Tail(@)]
    /\ UNCHANGED serverVars

\* the head of the for loop (line 99) holds and push is up (line 100)
Dispatching(cmds) ==
    /\ Alive
    /\ cl.pc = "loop"
    /\ cl.text # QuitLine
    /\ cl.isConnected
    /\ sanitizeInput(cl.text).cmd \in cmds

\* line 99 fails for the text "/quit": main returns and its deferred
\* conn.Close() runs, on a nil conn when the dial had failed.
clientReturn ==
    /\ Alive
    /\ cl.pc = "loop"
    /\ cl.text = QuitLine
    /\ cl' = [cl EXCEPT !.pc = "done", !.served = @ + 1,
                        !.exit = IF cl.wsconn = "nil" THEN "panic" ELSE "return",
                        !.wsconn = IF @ = "nil" THEN @ ELSE "broken"]
    /\ UNCHANGED serverVars

\* lines 100-102: without push the main task calls updateMessages, which
\* never returns.
clientEnterPoll ==
    /\ Alive
    /\ cl.pc = "loop"
    /\ cl.text # QuitLine
    /\ ~cl.isConnected
    /\ cl' = [cl EXCEPT !.pc = "poll", !.i = 1, !.engaged = cl.typed]
    /\ UNCHANGED serverVars

\* the Room joinRoom appends (lines 219-222)
NewRoom(roomName) == [roomName |-> roomName, lastUpdate |-> clock - HourAgo]

\* case "join": joinRoom(msg). POST /chat/room/join; an error or a 400 is
\* logged and nothing else happens.
clientJoin(net) ==
    /\ Dispatching({"join"})
    /\ LET roomName == sanitizeInput(cl.text).msg
       IN  \/ /\ net /\ running
              /\ joinRoomHandler(cl.name, roomName)
              /\ cl' = [cl EXCEPT !.pc = "scan", !.served = @ + 1,
                                  !.lastActiveRoom = roomName,
                                  !.activeRooms = Append(@, NewRoom(roomName)),
                                  !.joined = @ \cup {roomName}]
           \/ /\ ~(net /\ running)
              /\ UNCHANGED serverVars
              /\ cl' = [cl EXCEPT !.pc = "scan", !.served = @ + 1]

\* leaveRoom(roomName): DELETE /chat/room/leave; the outcome is only printed,
\* lastActiveRoom is set, the client's activeRooms keeps the room.
leaveRoom(roomName, net, next) ==
    \/ /\ net /\ running
       /\ leaveRoomHandler(cl.name, roomName)
       /\ cl' = [next EXCEPT !.lastActiveRoom = roomName, !.joined = @ \ {roomName}]
    \/ /\ ~(net /\ running)
       /\ UNCHANGED serverVars
       /\ cl' = [next EXCEPT !.lastActiveRoom = roomName]

\* case "leave": leaveRoom(msg)
clientLeave(net) ==
    /\ Dispatching({"leave"})
    /\ leaveRoom(sanitizeInput(cl.text).msg, net,
                 [cl EXCEPT !.pc = "scan", !.served = @ + 1])

\* case "quit" (a line such as "/quit now"): quit() starts its range loop
clientQuit ==
    /\ Dispatching({"quit"})
    /\ cl' = [cl EXCEPT !.pc = "quit", !.i = 1, !.served = @ + 1]
    /\ UNCHANGED serverVars

\* quit(), one iteration: leaveRoom(v.roomName)
clientQuitLeave(net) ==
    /\ Alive
    /\ cl.pc = "quit"
    /\ cl.i <= Len(cl.activeRooms)
    /\ leaveRoom(cl.activeRooms[cl.i].roomName, net,
                 [cl EXCEPT !.i = @ + 1,
                            !.leaves = Append(@, cl.activeRooms[cl.i].roomName)])

\* quit(), after the loop: os.Exit(0)
clientExit ==
    /\ Alive
    /\ cl.pc = "quit"
    /\ cl.i > Len(cl.activeRooms)
    /\ cl' = [cl EXCEPT !.pc = "done", !.exit = "quit"]
    /\ UNCHANGED serverVars

\* ------------------------------------------------- the client's postMessage
\* the path the client posts to (line 178) and the server's route (line 431)
PostURL == "/chat/postmsg/"
PostRoute == "/chat/postmsg"

\* mux's match of a POST: the route whose path is the request's path
Route(path) == IF path = PostRoute THEN "newMessageHandler" ELSE "notFound"

\* default: postMessage(cmd, msg). The message goes over the websocket when
\* WriteJSON succeeds (the server's listener then calls postMessage); else it
\* is posted to PostURL, and only an error of http.Post is fatal.
clientPost(net, dbOk) ==
    /\ Dispatching({Empty} \cup RoomNames)
    /\ LET in == sanitizeInput(cl.text)
           room == IF in.cmd = Empty THEN cl.lastActiveRoom ELSE in.cmd
           next == [cl EXCEPT !.pc = "scan", !.served = @ + 1]
           served == UNCHANGED <<users, rooms, memVars, wsconns, clock, jt, hist, pt>>
       IN  IF cl.wsconn = "open" /\ running
           THEN /\ postMessage(cl.name, room, in.msg, dbOk)
                /\ served
                /\ cl' = [next EXCEPT !.sent = Append(@, [wsErr |-> FALSE, reached |-> FALSE,
                                                          pid |-> Len(posts) + 1])]
           ELSE IF ~(net /\ running)
           THEN /\ UNCHANGED serverVars
                /\ cl' = [cl EXCEPT !.pc = "done", !.exit = "fatal", !.served = @ + 1,
                                    !.sent = Append(@, [wsErr |-> TRUE, reached |-> FALSE,
                                                        pid |-> 0])]
           ELSE IF Route(PostURL) = "newMessageHandler"
           THEN /\ postMessage(cl.name, room, in.msg, dbOk)
                /\ served
                /\ cl' = [next EXCEPT !.sent = Append(@, [wsErr |-> TRUE, reached |-> TRUE,
                                                          pid |-> Len(posts) + 1])]
           ELSE /\ UNCHANGED serverVars
                /\ cl' = [next EXCEPT !.sent = Append(@, [wsErr |-> TRUE, reached |-> TRUE,
                                                          pid |-> 0])]

\* the client's end of the connection fails (the network, or the server's exit)
linkFails ==
    /\ Alive
    /\ cl.wsconn = "open"
    /\ cl' = [cl EXCEPT !.wsconn = "broken"]
    /\ UNCHANGED serverVars

\* --------------------------------------------------------- recieveHandler
\* wsconn.ReadJSON on the nil wsconn of a failed dial: a nil dereference,
\* and nothing recovers it.
recvNil ==
    /\ Alive
    /\ cl.rh = "reading"
    /\ cl.wsconn = "nil"
    /\ cl' = [cl EXCEPT !.pc = "done", !.exit = "panic"]
    /\ UNCHANGED serverVars

\* ReadJSON yields the next frame the server wrote; it is printed.
recvMessage ==
    /\ Alive
    /\ cl.rh = "reading"
    /\ cl.wsconn = "open"
    /\ cl.rd < Len(conns[cl.conn].inbox)
    /\ cl' = [cl EXCEPT !.rd = @ + 1, !.msg = TRUE]
    /\ UNCHANGED serverVars

\* ReadJSON fails: the error is logged, then line 150 prints msg: a nil
\* dereference when no message was read before, else the last message again;
\* the loop goes on.
recvError ==
    /\ Alive
    /\ cl.rh = "reading"
    /\ cl.wsconn = "broken"
    /\ cl' = IF cl.msg THEN [cl EXCEPT !.rh = "failed"]
             ELSE [cl EXCEPT !.pc = "done", !.exit = "panic"]
    /\ UNCHANGED serverVars

\* the next iteration: ReadJSON on the failed connection, the same again
recvAgain ==
    /\ Alive
    /\ cl.rh = "failed"
    /\ ~cl.reread
    /\ cl' = [cl EXCEPT !.reread = TRUE]
    /\ UNCHANGED serverVars

\* the websocket library panics on repeated reads of a failed connection
recvPanic ==
    /\ Alive
    /\ cl.rh = "failed"
    /\ cl.reread
    /\ cl' = [cl EXCEPT !.pc = "done", !.exit = "panic"]
    /\ UNCHANGED serverVars

\* --------------------------------------------------------- updateMessages
PollSleep == 5     \* time.Sleep(5 * time.Second)

\* one iteration of the inner loop: room is a copy of (*activeRooms)[i], the
\* request carries the copy's lastUpdate, the copy's lastUpdate is set to now,
\* getMessages does the GET (log.Fatal on an error) and prints the answer.
pollRoom(net) ==
    /\ Alive
    /\ cl.pc = "poll"
    /\ cl.i <= Len(cl.activeRooms)
    /\ LET room == cl.activeRooms[cl.i]
           since == room.lastUpdate
           copy == [room EXCEPT !.lastUpdate = clock]
           tick == [idx |-> cl.i, room |-> copy.roomName, since |-> since,
                    at |-> copy.lastUpdate, ok |-> net /\ running]
       IN  cl' = IF net /\ running
                 THEN [cl EXCEPT !.i = @ + 1, !.ticks = Append(@, tick)]
                 ELSE [cl EXCEPT !.pc = "done", !.exit = "fatal",
                                 !.ticks = Append(@, tick)]
    /\ UNCHANGED serverVars

\* the end of a pass: time.Sleep, then the inner loop starts over
pollSleep ==
    /\ Alive
    /\ cl.pc = "poll"
    /\ cl.i > Len(cl.activeRooms)
    /\ cl.passes < MaxPasses
    /\ cl' = [cl EXCEPT !.i = 1, !.passes = @ + 1]
    /\ clock' = clock + PollSleep
    /\ UNCHANGED <<dbVars, memVars, connVars, running, posts, jt, hist, pt>>

\* the sequential server's room handlers
Next ==
    \/ \E n \in Names : newUserHandler(n) /\ UNCHANGED cl
    \/ \E r \in RoomNames : newRoomHandler(r) /\ UNCHANGED cl
    \/ \E n \in Names, r \in RoomNames :
          JoinedLen(r) < MaxMembers /\ joinRoomHandler(n, r) /\ UNCHANGED cl
    \/ \E n \in Names, r \in RoomNames : leaveRoomHandler(n, r) /\ UNCHANGED cl

Spec == Init /\ [][Next]_vars

\* the sequential server: rooms, connections and posts
NextBroker ==
    \/ \E n \in Names : newUserHandler(n) /\ UNCHANGED cl
    \/ \E n \in Names, r \in BrokerRooms :
          JoinedLen(r) < MaxFanout /\ joinRoomHandler(n, r) /\ UNCHANGED cl
    \/ \E n \in Names, r \in BrokerRooms : leaveRoomHandler(n, r) /\ UNCHANGED cl
    \/ \E n \in Names, r \in BrokerRooms, x \in Texts, ok \in BOOLEAN :
          newMessageHandler(n, r, x, ok) /\ UNCHANGED cl
    \/ \E c \in ConnIDs, u \in UserIDs : socketHandler(c, u) /\ UNCHANGED cl
    \/ \E c \in ConnIDs : listenerFails(c) /\ UNCHANGED cl
    \/ \E c \in ConnIDs, n \in Names, r \in BrokerRooms, x \in Texts, ok \in BOOLEAN :
          listenerMessage(c, n, r, x, ok) /\ UNCHANGED cl
    \/ Tick /\ UNCHANGED cl

SpecBroker == Init /\ [][NextBroker]_vars

\* postMessage calls as concurrent goroutines, one call each
NextPostRace ==
    \/ \E n \in Names : newUserHandler(n) /\ UNCHANGED cl
    \/ \E n \in Names, r \in BrokerRooms :
          JoinedLen(r) < MaxFanout /\ joinRoomHandler(n, r) /\ UNCHANGED cl
    \/ \E c \in ConnIDs, u \in UserIDs : socketHandler(c, u) /\ UNCHANGED cl
    \/ \E t \in Tasks, n \in Names, r \in BrokerRooms, x \in Texts :
          postBegin(t, n, r, x) /\ UNCHANGED cl
    \/ \E t \in Tasks, ok \in BOOLEAN : postEnd(t, ok) /\ UNCHANGED cl
    \/ Tick /\ UNCHANGED cl

SpecPostRace == Init /\ [][NextPostRace]_vars

\* the goroutine the next request gets: the lowest one that has not run
NextIdle(t) == pt[t].pc = "idle" /\ \A u \in Tasks : u < t => pt[u].pc # "idle"

\* the message log alone: users, rooms, concurrent postMessage calls, time
NextLog ==
    \/ \E r \in RoomNames : newRoomHandler(r) /\ UNCHANGED cl
    \/ \E t \in Tasks, n \in Names, r \in RoomNames, x \in Texts :
          NextIdle(t) /\ postBegin(t, n, r, x) /\ UNCHANGED cl
    \/ \E t \in Tasks, ok \in BOOLEAN : postEnd(t, ok) /\ UNCHANGED cl
    \/ Tick /\ UNCHANGED cl

\* one user is registered
InitLog ==
    /\ users = <<"alice">>
    /\ rooms = <<>>
    /\ messages = <<>>
    /\ activeRooms = [r \in RoomIDs |-> NilSlice]
    /\ arrays = [r \in RoomIDs |-> [g \in Gens |-> <<>>]]
    /\ wsconns = [u \in UserIDs |-> NULL]
    /\ conns = [c \in ConnIDs |-> NoConn]
    /\ clock = 0
    /\ running = TRUE
    /\ posts = <<>>
    /\ jt = [t \in Tasks |-> IdleTask]
    /\ hist = <<>>
    /\ pt = [t \in Tasks |-> IdlePost]
    /\ cl = NoClient

SpecLog == InitLog /\ [][NextLog]_vars

\* the room handlers as concurrent goroutines
NextJoinRace ==
    \/ \E n \in Names : newUserHandler(n) /\ UNCHANGED cl
    \/ \E t \in Tasks, n \in Names, r \in BrokerRooms :
          JoinedLen(r) < MaxFanout /\ joinBegin(t, n, r) /\ UNCHANGED cl
    \/ \E t \in Tasks : joinEnd(t) /\ UNCHANGED cl
    \/ \E t \in Tasks, n \in Names, r \in BrokerRooms : leaveBegin(t, n, r) /\ UNCHANGED cl
    \/ \E t \in Tasks : leaveStep(t) /\ UNCHANGED cl

SpecJoinRace == Init /\ [][NextJoinRace]_vars

\* socketHandler and the listener goroutine it starts, interleaved
NextSockRace ==
    \/ \E n \in Names : newUserHandler(n) /\ UNCHANGED cl
    \/ \E c \in ConnIDs, u \in UserIDs : sockUpgrade(c, u) /\ UNCHANGED cl
    \/ \E c \in ConnIDs : sockRegister(c) /\ UNCHANGED cl
    \/ \E c \in ConnIDs : listenerReadError(c) /\ UNCHANGED cl
    \/ \E c \in ConnIDs : listenerReadAgain(c) /\ UNCHANGED cl
    \/ \E c \in ConnIDs : listenerPanic(c) /\ UNCHANGED cl
    \/ \E c \in ConnIDs, n \in Names, r \in BrokerRooms, x \in Texts, ok \in BOOLEAN :
          listenerMessage(c, n, r, x, ok) /\ UNCHANGED cl

SpecSockRace == Init /\ [][NextSockRace]_vars

\* several connections, each with its handler and its listener, interleaved
InitSupersede ==
    /\ users = <<>>
    /\ rooms = <<>>
    /\ messages = <<>>
    /\ activeRooms = [r \in RoomIDs |-> NilSlice]
    /\ arrays = [r \in RoomIDs |-> [g \in Gens |-> <<>>]]
    /\ wsconns = [u \in UserIDs |-> NULL]
    /\ conns = [c \in Transports |-> NoConn]
    /\ clock = 0
    /\ running = TRUE
    /\ posts = <<>>
    /\ jt = [t \in Tasks |-> IdleTask]
    /\ hist = <<>>
    /\ pt = [t \in Tasks |-> IdlePost]
    /\ cl = NoClient

NextSupersede ==
    \/ \E n \in Names : newUserHandler(n) /\ UNCHANGED cl
    \/ \E c \in Transports, u \in UserIDs : sockUpgrade(c, u) /\ UNCHANGED cl
    \/ \E c \in Transports : sockRegister(c) /\ UNCHANGED cl
    \/ \E c \in Transports : listenerReadError(c) /\ UNCHANGED cl
    \/ \E c \in Transports : listenerReadAgain(c) /\ UNCHANGED cl
    \/ \E c \in Transports : listenerPanic(c) /\ UNCHANGED cl

SpecSupersede == InitSupersede /\ [][NextSupersede]_vars

\* the client, its console and its connection, against the sequential server
ClientMain ==
    \/ clientScan
    \/ clientReturn
    \/ clientEnterPoll
    \/ \E net \in BOOLEAN : clientJoin(net)
    \/ \E net \in BOOLEAN : clientLeave(net)
    \/ clientQuit
    \/ \E net \in BOOLEAN : clientQuitLeave(net)
    \/ clientExit
    \/ \E net \in BOOLEAN, ok \in BOOLEAN : clientPost(net, ok)
    \/ pollSleep

ClientReceiver ==
    \/ recvNil
    \/ recvMessage
    \/ recvError
    \/ recvAgain
    \/ recvPanic

NextClient ==
    \/ \E n \in Names : clientPostName(n)
    \/ \E c \in ConnIDs, net \in BOOLEAN : clientDial(c, net)
    \/ \E line \in Lines : userTypes(line)
    \/ ClientMain
    \/ ClientReceiver
    \/ linkFails
    \/ \E c \in ConnIDs :
          cl.wsconn = "broken" /\ cl.conn = c /\ listenerFails(c) /\ UNCHANGED cl
    \/ Tick /\ UNCHANGED cl

SpecClient == Init /\ [][NextClient]_vars

\* the same, with the client's two tasks scheduled whenever they can run
SpecClientLive ==
    Init /\ [][NextClient]_vars /\ WF_vars(ClientMain) /\ WF_vars(ClientReceiver)

\* ------------------------------------------------ updateMessages on its own
MaxRooms == 2      \* rooms in the list updateMessages is given

RoomLists == UNION {[1..n -> RoomNames] : n \in 1..MaxRooms}

\* the server after one user's joins of a list of rooms, from join i on
RECURSIVE JoinAll(_, _, _, _)
JoinAll(st, user, list, i) ==
    IF i > Len(list) THEN st
    ELSE LET tbl == createRoom(st.rooms, list[i])
             rid == getRoomID(tbl, list[i])
             res == AppendSlice(st.arrays[rid], st.activeRooms[rid], user)
         IN  JoinAll([rooms |-> tbl,
                      activeRooms |-> [st.activeRooms EXCEPT ![rid] = res.hdr],
                      arrays |-> [st.arrays EXCEPT ![rid] =
                                     [g \in Gens |-> IF g = res.hdr.arr
                                                     THEN res.arrs[g] ELSE <<>>]]],
                     user, list, i + 1)

\* updateMessages is called with the rooms of a list of joins, made at time 0
\* by a user whose dial had failed
InitPoller ==
    \E n \in Names, list \in RoomLists :
        LET st == JoinAll([rooms |-> <<>>,
                           activeRooms |-> [r \in RoomIDs |-> NilSlice],
                           arrays |-> [r \in RoomIDs |-> [g \in Gens |-> <<>>]]],
                          n, list, 1)
        IN  /\ users = <<n>>
            /\ rooms = st.rooms
            /\ messages = <<>>
            /\ activeRooms = st.activeRooms
            /\ arrays = st.arrays
            /\ wsconns = [u \in UserIDs |-> NULL]
            /\ conns = [c \in ConnIDs |-> NoConn]
            /\ clock = 0
            /\ running = TRUE
            /\ posts = <<>>
            /\ jt = [t \in Tasks |-> IdleTask]
            /\ hist = <<>>
            /\ pt = [t \in Tasks |-> IdlePost]
            /\ cl = [NoClient EXCEPT
                        !.pc = "poll", !.i = 1, !.name = n, !.uid = 1,
                        !.activeRooms = [k \in 1..Len(list) |->
                                            [roomName |-> list[k],
                                             lastUpdate |-> 0 - HourAgo]],
                        !.joined = {list[k] : k \in 1..Len(list)}]

NextPoller ==
    \/ \E net \in BOOLEAN : pollRoom(net)
    \/ pollSleep
    \/ Tick /\ UNCHANGED cl

SpecPoller == InitPoller /\ [][NextPoller]_vars

\* ------------------------------------------------------------------ claims
RoomIDOf(room) == getRoomID(rooms, room)

\* a step in which a request appended user to the member slice of room rid
JoinStep(rid, u) ==
    /\ activeRooms'[rid].len = activeRooms[rid].len + 1
    /\ SliceOf(arrays'[rid], activeRooms'[rid])[activeRooms'[rid].len] = u

\* C1: a Join(r,u) of a user who is already in the member list of r (an
\* earlier Join, no Leave in between) leaves u in the list exactly once.
C1_JoinTwiceOnce ==
    [][\A rid \in RoomIDs, u \in Names :
          (JoinStep(rid, u) /\ Occurs(Members(rid), u) >= 1)
              => Occurs(SliceOf(arrays'[rid], activeRooms'[rid]), u) = 1]_vars

\* C2: a step that takes an occurrence of u out of the member list of r (only
\* Leave(r,u) does) leaves no occurrence of u in it.
C2_LeaveRemoves ==
    [][\A rid \in RoomIDs, u \in Names :
          Occurs(SliceOf(arrays'[rid], activeRooms'[rid]), u) < Occurs(Members(rid), u)
              => Occurs(SliceOf(arrays'[rid], activeRooms'[rid]), u) = 0]_vars

\* a step that is one postMessage call, and the record of that call
PostStep == Len(posts') = Len(posts) + 1
ThePost == posts'[Len(posts')]

Inboxes == [c \in ConnIDs |-> conns[c].inbox]

\* how often the call pid was pushed (not replayed) to an inbox
RECURSIVE PushCount(_, _, _)
PushCount(inbox, pid, i) ==
    IF i > Len(inbox) THEN 0
    ELSE (IF inbox[i].pid = pid /\ inbox[i].epoch = NoEpoch THEN 1 ELSE 0)
         + PushCount(inbox, pid, i + 1)

HasRow(pid) == \E i \in 1..Len(messages) : messages[i].pid = pid
RowOf(pid) == messages[CHOOSE i \in 1..Len(messages) : messages[i].pid = pid]

\* C3: a postMessage call whose room does not exist or whose sender is not
\* registered returns an error, appends no row and pushes to no transport.
C3_InvalidPostRejected ==
    [][(PostStep /\ (~userExists(ThePost.sender) \/ ~roomExists(ThePost.room)))
          => /\ ThePost.result = "error"
             /\ messages' = messages
             /\ Inboxes' = Inboxes]_vars

\* C4: a successful postMessage call to an existing room pushes the message
\* exactly once to every member of the room with a registered transport.
C4_FanoutReachesMembers ==
    [][(PostStep /\ roomExists(ThePost.room) /\ ThePost.result = "ok")
          => \A u \in Names :
                (/\ Occurs(Members(RoomIDOf(ThePost.room)), u) >= 1
                 /\ userExists(u)
                 /\ wsconns[UserIDOf(u)] # NULL)
                    => PushCount(conns'[wsconns[UserIDOf(u)]].inbox,
                                 Len(posts'), 1) = 1]_vars

RECURSIVE Contains(_, _, _)
Contains(s, x, i) ==
    IF i > Len(s) THEN FALSE
    ELSE s[i] = x \/ Contains(s, x, i + 1)

\* C5: a post by an existing sender to an existing room whose row was
\* appended has returned success, whether or not any transport took the
\* message, and every range query of the room with a threshold up to the
\* message's epoch returns the message.
C5_PostVisibleByPull ==
    \A k \in 1..Len(posts) :
        (HasRow(k) /\ Joined(RowOf(k)))
            => /\ posts[k].result = "ok"
               /\ \A t \in 0..posts[k].epoch :
                     Contains(getMessagesAfter(posts[k].room, t),
                              [sender |-> posts[k].sender, epoch |-> posts[k].epoch,
                               text |-> posts[k].text, room |-> posts[k].room], 1)

\* C5's case: no connection was ever accepted, a post at a late epoch
\* succeeded and its row is in the log.
C5_Witness ==
    /\ \A c \in ConnIDs : conns[c].st = "none"
    /\ \E k \in 1..Len(posts) :
          /\ posts[k].result = "ok"
          /\ posts[k].epoch = MaxClock
          /\ HasRow(k) /\ Joined(RowOf(k))
          /\ clock = MaxClock

RowIndex(pid) == CHOOSE i \in 1..Len(messages) : messages[i].pid = pid

IsPush(f) == f.epoch = NoEpoch

\* C6: two messages of one room that were both pushed to a subscriber and
\* both appended to the log reached the subscriber in the order of their rows.
C6_PushOrderIsLogOrder ==
    \A c \in ConnIDs : \A i, j \in 1..Len(conns[c].inbox) :
        LET f == conns[c].inbox[i]
            g == conns[c].inbox[j]
        IN  (/\ i < j /\ IsPush(f) /\ IsPush(g)
             /\ f.room = g.room
             /\ HasRow(f.pid) /\ HasRow(g.pid))
                => RowIndex(f.pid) < RowIndex(g.pid)

\* C7: every message a transport was pushed has a row in the message log.
C7_PushedOnlyIfPersisted ==
    \A c \in ConnIDs : \A i \in 1..Len(conns[c].inbox) : HasRow(conns[c].inbox[i].pid)

\* C8: a postMessage call whose append failed has returned an error to its
\* caller, and the server is still running.
C8_AppendFailureReturned ==
    \A k \in 1..Len(posts) :
        ~HasRow(k) => (posts[k].result = "error" /\ running)

\* the member list after a request, run alone (the handlers' own code)
SerialApply(list, req) ==
    IF req.op = "join" THEN Append(list, req.user)
    ELSE IF list = <<>> THEN list
    ELSE LeaveLoop(<<list>>, [arr |-> 1, len |-> Len(list)], req.user, 1)[1]

RECURSIVE SerialReplay(_, _, _, _)
SerialReplay(list, order, rid, i) ==
    IF i > Len(hist) THEN list
    ELSE SerialReplay(IF hist[order[i]].rid = rid
                      THEN SerialApply(list, hist[order[i]]) ELSE list,
                      order, rid, i + 1)

\* the orders of the requests that respect arrival: a request that had
\* returned when another arrived comes before it
SerialOrders ==
    {f \in [1..Len(hist) -> 1..Len(hist)] :
        /\ \A a, b \in 1..Len(hist) : a # b => f[a] # f[b]
        /\ \A a, b \in 1..Len(hist) : f[a] \in hist[f[b]].before => a < b}

Quiescent == \A t \in Tasks : jt[t].pc = "idle"

\* C9: when every join/leave handler has returned, each room's member list
\* is what the same requests give when run one at a time in an order that
\* respects their arrival.
C9_JoinLeaveSerializable ==
    Quiescent =>
        \A rid \in RoomIDs :
            \E f \in SerialOrders : Members(rid) = SerialReplay(<<>>, f, rid, 1)

\* C10: once the read loop of a connection has seen a read failure and the
\* handler that accepted the connection has returned, no user is registered
\* with that connection.
C10_FailedConnUnregistered ==
    \A c \in ConnIDs :
        (conns[c].l \in {"failed", "exited"} /\ conns[c].h = "returned")
            => \A u \in UserIDs : wsconns[u] # c

\* C11: every client postMessage call whose push write failed and whose HTTP
\* request reached the server was handled by the server's postMessage, and
\* its row is in the log when the append succeeded.
C11_FallbackReachesServer ==
    \A k \in 1..Len(cl.sent) :
        (cl.sent[k].wsErr /\ cl.sent[k].reached)
            => /\ cl.sent[k].pid \in 1..Len(posts)
               /\ posts[cl.sent[k].pid].result = "ok" => HasRow(cl.sent[k].pid)

HandshakeFailed == cl.pc \notin {"start", "dial"} /\ ~cl.isConnected

\* C12: after a failed handshake the client touches the push transport no
\* more and keeps running: it does not end in a panic on the nil transport.
C12_PullOnlyAfterFailedDial ==
    HandshakeFailed => cl.exit # "panic"

\* the successful ticks of the room at index idx, among the first n ticks
TicksOf(idx, n) == {k \in 1..n : cl.ticks[k].idx = idx /\ cl.ticks[k].ok}

Latest(S) == CHOOSE k \in S : \A j \in S : j <= k

C15_QuitLeavesJoinedRooms ==
    cl.exit \in {"return", "quit"}
        => \A r \in cl.joined : Occurs(cl.leaves, r) = 1

\* C16: while push is unavailable, every line typed after the poller was
\* engaged is eventually dispatched.
C16_CommandsDispatchedWhilePolling ==
    \A n \in 1..MaxCmds :
        (cl.pc = "poll" /\ cl.typed >= n /\ n > cl.engaged) ~> (cl.served >= n)

\* C17: the messages a query returns for a room, in the order of the log, are
\* non-decreasing in epoch.
C17_LogEpochsAscend ==
    \A r \in RoomNames : \A i, j \in 1..Len(getMessages(r)) :
        i < j => getMessages(r)[i].epoch <= getMessages(r)[j].epoch

\* the messages of a sequence with an epoch of at least t, in order
AtOrAfter(s, t) == SelectSeq(s, LAMBDA m : m.epoch >= t)

\* the rows of the log that hold a message of room r with an epoch of at least t
PersistedRows(r, t) ==
    {i \in 1..Len(messages) :
        Joined(messages[i]) /\ rooms[messages[i].rid] = r /\ messages[i].epoch >= t}

Thresholds == 0..(MaxClock + 1)

MembersNext(rid) == SliceOf(arrays'[rid], activeRooms'[rid])

\* a step of a Leave request that changed a member list: only Leave writes
\* into a list without changing its length
LeaveStep == activeRooms' = activeRooms /\ arrays' # arrays

\* C19: a Leave(r,u) that changes a member list is the Leave of a member u of
\* r; it leaves every other room's list and every other user's membership in
\* r as they were and adds no entry that was not in the list before.
C19_LeaveFrame ==
    [][LeaveStep =>
          \E rid \in RoomIDs, u \in Names :
              /\ Occurs(Members(rid), u) >= 1
              /\ \A o \in RoomIDs \ {rid} : MembersNext(o) = Members(o)
              /\ \A v \in Names \ {u} :
                    Occurs(MembersNext(rid), v) = Occurs(Members(rid), v)
              /\ \A i \in 1..Len(MembersNext(rid)) :
                    Occurs(Members(rid), MembersNext(rid)[i]) >= 1]_vars

\* C20: the read loop of a connection calls ReadJSON no more once a ReadJSON
\* on that connection has failed.
C20_NoReadAfterFailure ==
    \A c \in ConnIDs : ~conns[c].reread

\* the call of this step was pushed (not replayed) to connection c
PushedTo(c) ==
    PushCount(conns'[c].inbox, Len(posts'), 1) > PushCount(conns[c].inbox, Len(posts'), 1)

\* the user ids that are not members of room when the fan-out runs
NonMembers(room) ==
    {u \in 1..Len(users) :
        ~roomExists(room) \/ Occurs(Members(RoomIDOf(room)), users[u]) = 0}

\* C21: a postMessage call to room r pushes the message to the transport of
\* no user who is not a member of r when the fan-out runs.
C21_FanoutOnlyToMembers ==
    [][PostStep
          => \A u \in NonMembers(ThePost.room) :
                wsconns[u] # NULL => ~PushedTo(wsconns[u])]_vars

\* C22: when socketHandler registers connection c for a user whose entry of
\* wsconns holds an older connection, the entry holds c afterwards and the
\* entries of the other users are unchanged; a ReadJSON that fails on a
\* superseded connection removes no entry of wsconns.
C22_RegisterSupersedes ==
    [][\A c \in Transports :
          /\ (sockRegister(c) /\ wsconns[conns[c].uid] \notin {NULL, c})
                => /\ wsconns'[conns[c].uid] = c
                   /\ \A v \in UserIDs \ {conns[c].uid} : wsconns'[v] = wsconns[v]
          /\ ((listenerReadError(c) \/ listenerReadAgain(c)) /\ conns[c].sup # "no")
                => wsconns' = wsconns]_vars

\* a ReadJSON has failed on a superseded connection and a user is registered
\* with a later connection whose handler has returned
C22_Witness ==
    \E c \in Transports, t \in Transports, u \in UserIDs :
        /\ conns[c].sup = "failed"
        /\ t > c
        /\ conns[t].h = "returned"
        /\ wsconns[u] = t

=============================================================================
